---- MODULE Spec2Model ----
(***************************************************************************)
(* Order creation of the order-management backend: geocoding, warehouse    *)
(* selection, payment and the transactional write of an Order with its     *)
(* OrderItems (backend/app/services/*.py, backend/app/models.py).          *)
(*                                                                         *)
(* Conventions.  Money is kept in integer cents.  Coordinates are kept in  *)
(* integer microdegrees (geocode_address rounds to 6 decimals).  Distances *)
(* are the values of haversine_distance in whole metres.  Python's None is *)
(* NoWarehouse, NoPaymentId or NoMessage, by the type of the value; a      *)
(* missing card number (None or "") is the empty sequence.                 *)
(***************************************************************************)
EXTENDS Integers, Sequences, FiniteSets, TLC

VARIABLES
    customers,      \* table customers: the set of Customer.id
    products,       \* table products: Product.id -> Product.price
    warehouses,     \* table warehouses: Warehouse.id -> [latitude, longitude]
    inventory,      \* table inventory: set of [warehouse_id, product_id, quantity]
    orders,         \* table orders: the committed Order rows
    order_items,    \* table order_items: the committed OrderItem rows
    next_order_id,  \* autoincrement of orders.id
    next_item_id,   \* autoincrement of order_items.id
    issued,         \* the payment ids of the successful charges, in their order
    pc,             \* per request handler: its position in create_order
    request,        \* per request handler: the CreateOrderRequest
    locals,         \* per request handler: the local variables of create_order
    session,        \* per request handler: the rows of its open transaction
    response,       \* per request handler: what the endpoint answered
    ncalls,         \* number of create_order calls started
    log,            \* per create_order call: the steps it has executed
    sel,            \* last call of find_best_warehouse made on its own
    pay,            \* last call of process_payment made on its own
    geo             \* the calls of geocode_address made on its own

vars == <<customers, products, warehouses, inventory, orders, order_items,
          next_order_id, next_item_id, issued, pc, request, locals, session,
          response, ncalls, log, sel, pay, geo>>

\* Python's None where a Warehouse, a payment id or a message is expected.
\* Warehouse ids and payment ids are positive.
NoWarehouse == 0
NoPaymentId == 0
NoMessage == "None"

-----------------------------------------------------------------------------
(* Bounds of the model *)

\* longest item list handed to find_best_warehouse on its own
MaxItems == 2
\* largest stock of an inventory entry, and largest quantity asked for
MaxStock == 2
\* longest card number handed to process_payment on its own
MaxCardLen == 14
\* largest amount (in cents) handed to process_payment on its own
MaxAmount == 2
\* number of successful charges made on process_payment on its own
MaxPayments == 2

-----------------------------------------------------------------------------
(* Geocoder *)

\* The addresses used as inputs; the second differs from the first in case only.
Addresses ==
    { "1 Main St, Austin, TX 73301, USA",
      "1 MAIN ST, AUSTIN, TX 73301, USA",
      "5 Bay St, Oakland, CA 94607, USA",
      "7 Oak Ave, Miami, FL 33101, USA" }

\* Defect variant: the address is hashed as it is written.
lower_CaseSensitive(address) == address

\* str.lower() on the addresses above and on the empty string.
lower(address) ==
    CASE address = "1 Main St, Austin, TX 73301, USA" -> "1 main st, austin, tx 73301, usa"
      [] address = "1 MAIN ST, AUSTIN, TX 73301, USA" -> "1 main st, austin, tx 73301, usa"
      [] address = "5 Bay St, Oakland, CA 94607, USA" -> "5 bay st, oakland, ca 94607, usa"
      [] address = "7 Oak Ave, Miami, FL 33101, USA" -> "7 oak ave, miami, fl 33101, usa"
      [] address = "" -> ""

\* The coordinate computed from sha256(text): the first 8 hex digits of the
\* digest give the latitude, 25 + (lat_hash / 0xFFFFFFFF) * 24, the next 8 the
\* longitude, -125 + (lng_hash / 0xFFFFFFFF) * 58, both rounded to 6 decimals.
\* Tabulated for the addresses above as written and in lower case.
sha256_coordinate(text) ==
    CASE text = "1 main st, austin, tx 73301, usa" ->
            [latitude |-> 29506798, longitude |-> -79917986]
      [] text = "5 bay st, oakland, ca 94607, usa" ->
            [latitude |-> 27734521, longitude |-> -109771629]
      [] text = "7 oak ave, miami, fl 33101, usa" ->
            [latitude |-> 32595699, longitude |-> -83953208]
      [] text = "" ->
            [latitude |-> 46345984, longitude |-> -90339380]
      [] text = "1 Main St, Austin, TX 73301, USA" ->
            [latitude |-> 38201952, longitude |-> -112106440]
      [] text = "1 MAIN ST, AUSTIN, TX 73301, USA" ->
            [latitude |-> 28237976, longitude |-> -89952327]
      [] text = "5 Bay St, Oakland, CA 94607, USA" ->
            [latitude |-> 26721581, longitude |-> -90954408]
      [] text = "7 Oak Ave, Miami, FL 33101, USA" ->
            [latitude |-> 33180760, longitude |-> -88323858]

\* geocode_address: the coordinate of the lower-cased address.
geocode_address(address) == sha256_coordinate(lower(address))

-----------------------------------------------------------------------------
(* Distance calculator *)

\* The coordinates of the seeded warehouses (seed_data.py).
SanFrancisco == [latitude |-> 37774900, longitude |-> -122419400]
Dallas       == [latitude |-> 32776700, longitude |-> -96797000]
NewYork      == [latitude |-> 40712800, longitude |-> -74006000]

\* haversine_distance in metres (R = 6371 km), tabulated from the formula for
\* the geocoded addresses against the seeded warehouse coordinates.  Equal
\* computations give equal floats, so two warehouses at one coordinate tie.
haversine_distance(lat1, lon1, lat2, lon2) ==
    CASE <<lat1, lon1, lat2, lon2>> = <<29506798, -79917986, 37774900, -122419400>> -> 4004645
      [] <<lat1, lon1, lat2, lon2>> = <<29506798, -79917986, 32776700, -96797000>> -> 1645051
      [] <<lat1, lon1, lat2, lon2>> = <<29506798, -79917986, 40712800, -74006000>> -> 1356267
      [] <<lat1, lon1, lat2, lon2>> = <<27734521, -109771629, 37774900, -122419400>> -> 1623458
      [] <<lat1, lon1, lat2, lon2>> = <<27734521, -109771629, 32776700, -96797000>> -> 1365148
      [] <<lat1, lon1, lat2, lon2>> = <<27734521, -109771629, 40712800, -74006000>> -> 3559630
      [] <<lat1, lon1, lat2, lon2>> = <<32595699, -83953208, 37774900, -122419400>> -> 3517795
      [] <<lat1, lon1, lat2, lon2>> = <<32595699, -83953208, 32776700, -96797000>> -> 1201432
      [] <<lat1, lon1, lat2, lon2>> = <<32595699, -83953208, 40712800, -74006000>> -> 1264054

-----------------------------------------------------------------------------
(* Warehouse selector: find_best_warehouse(db, items, shipping_location).   *)
(* items is a sequence of <<product_id, quantity>>.  inv and whs are the    *)
(* inventory and warehouses tables the queries read.  rows is the order in  *)
(* which the storage returns the Warehouse rows: the query has no ORDER BY. *)

\* Defect variant: a product id asked for several times is counted once.
product_ids_Deduplicated(items) ==
    LET ids == {items[i][1] : i \in 1..Len(items)}
    IN CHOOSE seq \in [1..Cardinality(ids) -> ids] :
            \A i, j \in 1..Cardinality(ids) : seq[i] = seq[j] => i = j

product_ids(items) == [i \in 1..Len(items) |-> items[i][1]]

\* {item[0]: item[1] for item in items}: a later item overwrites an earlier one.
required_quantities(items) ==
    [pid \in {items[i][1] : i \in 1..Len(items)} |->
        LET last == CHOOSE i \in 1..Len(items) :
                        /\ items[i][1] = pid
                        /\ \A j \in (i + 1)..Len(items) : items[j][1] # pid
        IN items[last][2]]

\* db.query(Inventory.warehouse_id, Inventory.product_id)
\*   .filter(Inventory.product_id.in_(product_ids)).all()
qualifying_inventory(inv, items) ==
    {e \in inv : \E i \in 1..Len(items) : items[i][1] = e.product_id}

\* warehouse_products[w]: the products of w's matching entries with
\* quantity >= the required quantity (one entry per (warehouse, product)).
warehouse_products(inv, items, w) ==
    {e.product_id : e \in {x \in qualifying_inventory(inv, items) :
                            /\ x.warehouse_id = w
                            /\ x.quantity >= required_quantities(items)[x.product_id]}}

\* Defect variant: the quantity of the entry is not compared.
qualifying_warehouse_ids_NoQuantity(inv, items) ==
    {w \in {e.warehouse_id : e \in inv} :
        Cardinality({e.product_id : e \in {x \in qualifying_inventory(inv, items) :
                                            x.warehouse_id = w}}) = Len(product_ids(items))}

\* [wh_id for wh_id, products in warehouse_products.items()
\*    if len(products) == num_products]
qualifying_warehouse_ids(inv, items) ==
    {w \in {e.warehouse_id : e \in inv} :
        /\ warehouse_products(inv, items, w) # {}
        /\ Cardinality(warehouse_products(inv, items, w)) = Len(product_ids(items))}

\* db.query(Warehouse).filter(Warehouse.id.in_(ids)).all(), in storage order.
QueryWarehouses(whs, ids, rows) ==
    SelectSeq(rows, LAMBDA w : w \in DOMAIN whs /\ w \in ids)

Distance(whs, shipping_location, w) ==
    haversine_distance(shipping_location.latitude, shipping_location.longitude,
                       whs[w].latitude, whs[w].longitude)

\* Defect variant of the scan: keeps the farthest warehouse.
RECURSIVE ClosestScan_Farthest(_, _, _, _, _)
ClosestScan_Farthest(whs, shipping_location, found, best_warehouse, best_distance) ==
    IF found = <<>> THEN best_warehouse
    ELSE LET distance == Distance(whs, shipping_location, Head(found)) IN
         IF best_warehouse = NoWarehouse \/ distance > best_distance
         THEN ClosestScan_Farthest(whs, shipping_location, Tail(found), Head(found), distance)
         ELSE ClosestScan_Farthest(whs, shipping_location, Tail(found), best_warehouse, best_distance)

\* The loop over the qualifying warehouses: best_distance starts at infinity
\* (best_warehouse = None in the code), and a warehouse replaces the best one only when
\* strictly closer.
RECURSIVE ClosestScan(_, _, _, _, _)
ClosestScan(whs, shipping_location, found, best_warehouse, best_distance) ==
    IF found = <<>> THEN best_warehouse
    ELSE LET distance == Distance(whs, shipping_location, Head(found)) IN
         IF best_warehouse = NoWarehouse \/ distance < best_distance
         THEN ClosestScan(whs, shipping_location, Tail(found), Head(found), distance)
         ELSE ClosestScan(whs, shipping_location, Tail(found), best_warehouse, best_distance)

\* Defect variant: without items every warehouse qualifies, and the closest
\* is returned.
find_best_warehouse_EmptyQualifiesAll(inv, whs, items, shipping_location, rows) ==
    LET ids   == IF items = <<>> THEN DOMAIN whs ELSE qualifying_warehouse_ids(inv, items)
        found == QueryWarehouses(whs, ids, rows)
    IN IF ids = {} THEN NoWarehouse
       ELSE IF found = <<>> THEN NoWarehouse
       ELSE IF Len(found) = 1 THEN found[1]
       ELSE ClosestScan(whs, shipping_location, found, NoWarehouse, 0)

\* The id of the warehouse returned, or NoWarehouse.
find_best_warehouse(inv, whs, items, shipping_location, rows) ==
    IF items = <<>> THEN NoWarehouse
    ELSE LET ids   == qualifying_warehouse_ids(inv, items)
             found == QueryWarehouses(whs, ids, rows)
         IN IF ids = {} THEN NoWarehouse
            ELSE IF found = <<>> THEN NoWarehouse
            ELSE IF Len(found) = 1 THEN found[1]
            ELSE ClosestScan(whs, shipping_location, found, NoWarehouse, 0)

-----------------------------------------------------------------------------
(* Payment processor: process_payment(card_number, amount, description).    *)
(* card_number is a sequence of digits.  uuid is the value that             *)
(* uuid.uuid4().hex[:16] takes in the call: a random draw, which the code   *)
(* compares with no id generated before.                                    *)

PaymentResult(success, payment_id, error_message) ==
    [success |-> success, payment_id |-> payment_id, error_message |-> error_message]

\* The values uuid.uuid4().hex[:16] can take, reduced to two.
uuid4 == {1, 2}

\* Defect variant: the amount is not checked.
process_payment_NoAmountCheck(card_number, amount, uuid) ==
    IF card_number = <<>> \/ Len(card_number) < 13
    THEN PaymentResult(FALSE, NoPaymentId, "Invalid card number")
    ELSE IF card_number[1] = 0
    THEN PaymentResult(FALSE, NoPaymentId, "Card declined by issuer")
    ELSE PaymentResult(TRUE, uuid, NoMessage)

\* Defect variant: the issuer check comes before the amount check.
process_payment_DeclineFirst(card_number, amount, uuid) ==
    IF card_number = <<>> \/ Len(card_number) < 13
    THEN PaymentResult(FALSE, NoPaymentId, "Invalid card number")
    ELSE IF card_number[1] = 0
    THEN PaymentResult(FALSE, NoPaymentId, "Card declined by issuer")
    ELSE IF amount <= 0
    THEN PaymentResult(FALSE, NoPaymentId, "Invalid amount")
    ELSE PaymentResult(TRUE, uuid, NoMessage)

process_payment(card_number, amount, uuid) ==
    IF card_number = <<>> \/ Len(card_number) < 13
    THEN PaymentResult(FALSE, NoPaymentId, "Invalid card number")
    ELSE IF amount <= 0
    THEN PaymentResult(FALSE, NoPaymentId, "Invalid amount")
    ELSE IF card_number[1] = 0
    THEN PaymentResult(FALSE, NoPaymentId, "Card declined by issuer")
    ELSE PaymentResult(TRUE, uuid, NoMessage)

-----------------------------------------------------------------------------
(* The database after seeding (seed_data.py), reduced to one customer, two  *)
(* products and small stock levels: warehouse 1 has full stock, warehouse 2 *)
(* misses product 2, warehouse 3 is low on product 1.                       *)

SeedCustomers == {1}

SeedProducts == (1 :> 99999) @@ (2 :> 2999)

SeedWarehouses == (1 :> SanFrancisco) @@ (2 :> Dallas) @@ (3 :> NewYork)

Inventory(warehouse_id, product_id, quantity) ==
    [warehouse_id |-> warehouse_id, product_id |-> product_id, quantity |-> quantity]

SeedInventory ==
    { Inventory(1, 1, 2), Inventory(1, 2, 2),
      Inventory(2, 1, 2),
      Inventory(3, 1, 1), Inventory(3, 2, 2) }

\* The orders in which the storage may return the rows with ids S.
RowOrders(S) ==
    {rows \in [1..Cardinality(S) -> S] :
        \A i, j \in 1..Cardinality(S) : rows[i] = rows[j] => i = j}

-----------------------------------------------------------------------------
(* Order orchestrator: create_order(db, request), one action per step.      *)

\* The request handlers that may run create_order concurrently, each with a
\* database session of its own.
Handlers == {"h1", "h2"}

OrderItemRequest(product_id, quantity) ==
    [product_id |-> product_id, quantity |-> quantity]

\* Card numbers the request schema accepts (13 to 19 characters).
GoodCard     == <<4, 1, 1, 1, 1, 1, 1, 1, 1, 1, 1, 1, 1>>
DeclinedCard == <<0, 1, 2, 3, 4, 5, 6, 7, 8, 9, 0, 1, 2>>

NoRequest ==
    [customer_id |-> 0, shipping_address |-> "", credit_card |-> <<>>, items |-> <<>>]

NoLocation == [latitude |-> 0, longitude |-> 0]

NoLocals ==
    [call |-> 0, products_map |-> <<>>, geo_location |-> NoLocation,
     warehouse |-> NoWarehouse, total_amount |-> 0,
     payment_result |-> PaymentResult(FALSE, NoPaymentId, NoMessage),
     order_id |-> 0]

NoSession == [orders |-> {}, order_items |-> {}]

NoResponse == [status_code |-> 0, error |-> "None", message |-> <<>>, order_id |-> 0]

\* Defect variant: the endpoint answers every OrderServiceError with 400.
ErrorResponse_Always400(status_code, error, message) ==
    [status_code |-> 400, error |-> error, message |-> message, order_id |-> 0]

\* HTTPException(status_code=e.status_code, detail=e.message)
ErrorResponse(status_code, error, message) ==
    [status_code |-> status_code, error |-> error, message |-> message, order_id |-> 0]

CustomerNotFoundError(customer_id) ==
    ErrorResponse(404, "CustomerNotFoundError", <<"Customer with id not found", customer_id>>)

ProductNotFoundError(missing) ==
    ErrorResponse(404, "ProductNotFoundError", <<"Products not found", missing>>)

NoWarehouseAvailableError ==
    ErrorResponse(400, "NoWarehouseAvailableError",
                  <<"No warehouse has all requested products in sufficient quantity">>)

PaymentFailedError(message) ==
    ErrorResponse(402, "PaymentFailedError", <<"Payment failed", message>>)

\* An exception that is no OrderServiceError leaves the endpoint as a 500.
InternalServerError ==
    ErrorResponse(500, "InternalServerError", <<>>)

Created(order_id) ==
    [status_code |-> 201, error |-> "None", message |-> <<>>, order_id |-> order_id]

Step(op, ok, val) == [op |-> op, ok |-> ok, val |-> val]

Logged(h, op, ok, val) ==
    [log EXCEPT ![locals[h].call] = Append(@, Step(op, ok, val))]

\* [(item.product_id, item.quantity) for item in request.items]
items_with_qty(items) ==
    [i \in 1..Len(items) |-> <<items[i].product_id, items[i].quantity>>]

\* sum(products_map[item.product_id].price * item.quantity for item in items)
RECURSIVE total_amount(_, _)
total_amount(products_map, items) ==
    IF items = <<>> THEN 0
    ELSE products_map[Head(items).product_id] * Head(items).quantity
         + total_amount(products_map, Tail(items))

\* A handler takes a request: create_order_endpoint calls create_order.
Begin(h, r, limit) ==
    /\ pc[h] \in {"idle", "done"}
    /\ ncalls < limit
    /\ ncalls' = ncalls + 1
    /\ pc' = [pc EXCEPT ![h] = "customer"]
    /\ request' = [request EXCEPT ![h] = r]
    /\ locals' = [locals EXCEPT ![h] = [NoLocals EXCEPT !.call = ncalls + 1]]
    /\ session' = [session EXCEPT ![h] = NoSession]
    /\ response' = [response EXCEPT ![h] = NoResponse]
    /\ log' = Append(log, <<Step("begin", TRUE, Len(r.items))>>)
    /\ UNCHANGED <<customers, products, warehouses, inventory, orders, order_items,
                   next_order_id, next_item_id, issued, sel, pay, geo>>

\* Defect variant: the customer is looked up but "if not customer" is missing.
ValidateCustomer_NoCheck(h) ==
    /\ pc[h] = "customer"
    /\ pc' = [pc EXCEPT ![h] = "products"]
    /\ log' = Logged(h, "customer", request[h].customer_id \in customers,
                     request[h].customer_id)
    /\ UNCHANGED <<customers, products, warehouses, inventory, orders, order_items,
                   next_order_id, next_item_id, issued, request, locals, session,
                   response, ncalls, sel, pay, geo>>

\* 1. Validate customer exists
ValidateCustomer(h) ==
    /\ pc[h] = "customer"
    /\ IF request[h].customer_id \notin customers
       THEN /\ pc' = [pc EXCEPT ![h] = "done"]
            /\ response' = [response EXCEPT ![h] = CustomerNotFoundError(request[h].customer_id)]
            /\ log' = Logged(h, "customer", FALSE, request[h].customer_id)
       ELSE /\ pc' = [pc EXCEPT ![h] = "products"]
            /\ response' = response
            /\ log' = Logged(h, "customer", TRUE, request[h].customer_id)
    /\ UNCHANGED <<customers, products, warehouses, inventory, orders, order_items,
                   next_order_id, next_item_id, issued, request, locals, session,
                   ncalls, sel, pay, geo>>

\* Defect variant: only the first missing id is reported.
missing_products_FirstOnly(products_map, items) ==
    LET missing == SelectSeq([i \in 1..Len(items) |-> items[i].product_id],
                             LAMBDA pid : pid \notin DOMAIN products_map)
    IN IF missing = <<>> THEN <<>> ELSE <<Head(missing)>>

\* [pid for pid in product_ids if pid not in products_map]
missing_products(products_map, items) ==
    SelectSeq([i \in 1..Len(items) |-> items[i].product_id],
              LAMBDA pid : pid \notin DOMAIN products_map)

\* 2. Validate products and get prices: the prices are read here, once.
ValidateProducts(h) ==
    /\ pc[h] = "products"
    /\ LET ids == {request[h].items[i].product_id : i \in 1..Len(request[h].items)}
           products_map == [pid \in ids \cap DOMAIN products |-> products[pid]]
           missing == missing_products(products_map, request[h].items)
       IN /\ locals' = [locals EXCEPT ![h].products_map = products_map]
          /\ IF missing # <<>>
             THEN /\ pc' = [pc EXCEPT ![h] = "done"]
                  /\ response' = [response EXCEPT ![h] = ProductNotFoundError(missing)]
                  /\ log' = Logged(h, "products", FALSE, Len(missing))
             ELSE /\ pc' = [pc EXCEPT ![h] = "warehouse"]
                  /\ response' = response
                  /\ log' = Logged(h, "products", TRUE, 0)
    /\ UNCHANGED <<customers, products, warehouses, inventory, orders, order_items,
                   next_order_id, next_item_id, issued, request, session,
                   ncalls, sel, pay, geo>>

\* Defect variant: "if not warehouse" is missing.
FindWarehouse_NoCheck(h) ==
    /\ pc[h] = "warehouse"
    /\ \E rows \in RowOrders(DOMAIN warehouses) :
        LET geo_location == geocode_address(request[h].shipping_address)
            warehouse == find_best_warehouse(inventory, warehouses,
                                             items_with_qty(request[h].items),
                                             geo_location, rows)
        IN /\ locals' = [locals EXCEPT ![h].geo_location = geo_location,
                                       ![h].warehouse = warehouse]
           /\ pc' = [pc EXCEPT ![h] = "payment"]
           /\ log' = Logged(h, "warehouse", warehouse # NoWarehouse, warehouse)
    /\ UNCHANGED <<customers, products, warehouses, inventory, orders, order_items,
                   next_order_id, next_item_id, issued, request, session, response,
                   ncalls, sel, pay, geo>>

\* The quantity of product pid that the rows S of order_items ask for.
RECURSIVE Quantity(_, _)
Quantity(S, pid) ==
    IF S = {} THEN 0
    ELSE LET it == CHOOSE x \in S : TRUE
         IN (IF it.product_id = pid THEN it.quantity ELSE 0) + Quantity(S \ {it}, pid)

\* What the persisted Orders assigned to warehouse w demand of product pid.
Demand(w, pid) ==
    Quantity({it \in order_items :
                \E o \in orders : o.id = it.order_id /\ o.warehouse_id = w}, pid)

\* Defect variant: the selection counts the stock that the persisted Orders
\* have not taken.
FindWarehouse_Reserving(h) ==
    /\ pc[h] = "warehouse"
    /\ \E rows \in RowOrders(DOMAIN warehouses) :
        LET geo_location == geocode_address(request[h].shipping_address)
            remaining == {[e EXCEPT !.quantity = @ - Demand(e.warehouse_id, e.product_id)]
                            : e \in inventory}
            warehouse == find_best_warehouse(remaining, warehouses,
                                             items_with_qty(request[h].items),
                                             geo_location, rows)
        IN /\ locals' = [locals EXCEPT ![h].geo_location = geo_location,
                                       ![h].warehouse = warehouse]
           /\ IF warehouse = NoWarehouse
              THEN /\ pc' = [pc EXCEPT ![h] = "done"]
                   /\ response' = [response EXCEPT ![h] = NoWarehouseAvailableError]
                   /\ log' = Logged(h, "warehouse", FALSE, NoWarehouse)
              ELSE /\ pc' = [pc EXCEPT ![h] = "payment"]
                   /\ response' = response
                   /\ log' = Logged(h, "warehouse", TRUE, warehouse)
    /\ UNCHANGED <<customers, products, warehouses, inventory, orders, order_items,
                   next_order_id, next_item_id, issued, request, session,
                   ncalls, sel, pay, geo>>

\* 3. Geocode shipping address, 4. Find best warehouse
FindWarehouse(h) ==
    /\ pc[h] = "warehouse"
    /\ \E rows \in RowOrders(DOMAIN warehouses) :
        LET geo_location == geocode_address(request[h].shipping_address)
            warehouse == find_best_warehouse(inventory, warehouses,
                                             items_with_qty(request[h].items),
                                             geo_location, rows)
        IN /\ locals' = [locals EXCEPT ![h].geo_location = geo_location,
                                       ![h].warehouse = warehouse]
           /\ IF warehouse = NoWarehouse
              THEN /\ pc' = [pc EXCEPT ![h] = "done"]
                   /\ response' = [response EXCEPT ![h] = NoWarehouseAvailableError]
                   /\ log' = Logged(h, "warehouse", FALSE, NoWarehouse)
              ELSE /\ pc' = [pc EXCEPT ![h] = "payment"]
                   /\ response' = response
                   /\ log' = Logged(h, "warehouse", TRUE, warehouse)
    /\ UNCHANGED <<customers, products, warehouses, inventory, orders, order_items,
                   next_order_id, next_item_id, issued, request, session,
                   ncalls, sel, pay, geo>>

\* Defect variant: the Order is written with status "pending".
Order_Pending(h, id) ==
    [id |-> id,
     customer_id |-> request[h].customer_id,
     warehouse_id |-> locals[h].warehouse,
     shipping_address |-> request[h].shipping_address,
     shipping_lat |-> locals[h].geo_location.latitude,
     shipping_lng |-> locals[h].geo_location.longitude,
     total_amount |-> locals[h].total_amount,
     payment_id |-> locals[h].payment_result.payment_id,
     status |-> "pending",
     call |-> locals[h].call]

\* The Order row built at step 7; call is the create_order call that wrote it.
Order(h, id) ==
    [id |-> id,
     customer_id |-> request[h].customer_id,
     warehouse_id |-> locals[h].warehouse,
     shipping_address |-> request[h].shipping_address,
     shipping_lat |-> locals[h].geo_location.latitude,
     shipping_lng |-> locals[h].geo_location.longitude,
     total_amount |-> locals[h].total_amount,
     payment_id |-> locals[h].payment_result.payment_id,
     status |-> "confirmed",
     call |-> locals[h].call]

\* The OrderItem rows of the request, with the prices of products_map; call
\* is the create_order call that wrote them.
OrderItems(h, first_id) ==
    {[id |-> first_id + i - 1,
      order_id |-> locals[h].order_id,
      product_id |-> request[h].items[i].product_id,
      quantity |-> request[h].items[i].quantity,
      unit_price |-> locals[h].products_map[request[h].items[i].product_id],
      call |-> locals[h].call]
        : i \in 1..Len(request[h].items)}

\* Defect variant: "if not payment_result.success" is missing.
ProcessPayment_IgnoreFailure(h) ==
    /\ pc[h] = "payment"
    /\ \E uuid \in uuid4 :
       LET total == total_amount(locals[h].products_map, request[h].items)
           payment_result == process_payment(request[h].credit_card, total, uuid)
       IN /\ locals' = [locals EXCEPT ![h].total_amount = total,
                                      ![h].payment_result = payment_result]
          /\ log' = Logged(h, "payment", payment_result.success, payment_result.payment_id)
          /\ pc' = [pc EXCEPT ![h] = "order"]
          /\ issued' = IF payment_result.success
                       THEN Append(issued, payment_result.payment_id) ELSE issued
    /\ UNCHANGED <<customers, products, warehouses, inventory, orders, order_items,
                   next_order_id, next_item_id, request, session, response,
                   ncalls, sel, pay, geo>>

\* Defect variant: the Order is written and committed before the charge.
ProcessPayment_CommitFirst(h) ==
    /\ pc[h] = "payment"
    /\ \E uuid \in uuid4 :
       LET total == total_amount(locals[h].products_map, request[h].items)
           payment_result == process_payment(request[h].credit_card, total, uuid)
       IN /\ locals' = [locals EXCEPT ![h].total_amount = total,
                                      ![h].payment_result = payment_result,
                                      ![h].order_id = next_order_id]
          /\ orders' = orders \cup {[Order(h, next_order_id) EXCEPT !.total_amount = total]}
          /\ next_order_id' = next_order_id + 1
          /\ log' = Logged(h, "payment", payment_result.success, payment_result.payment_id)
          /\ IF ~payment_result.success
             THEN /\ pc' = [pc EXCEPT ![h] = "done"]
                  /\ response' = [response EXCEPT ![h] =
                                    PaymentFailedError(payment_result.error_message)]
                  /\ issued' = issued
             ELSE /\ pc' = [pc EXCEPT ![h] = "items"]
                  /\ response' = response
                  /\ issued' = Append(issued, payment_result.payment_id)
    /\ UNCHANGED <<customers, products, warehouses, inventory, order_items,
                   next_item_id, request, session, ncalls, sel, pay, geo>>

\* 5. Calculate total amount, 6. Process payment
ProcessPayment(h) ==
    /\ pc[h] = "payment"
    /\ \E uuid \in uuid4 :
       LET total == total_amount(locals[h].products_map, request[h].items)
           payment_result == process_payment(request[h].credit_card, total, uuid)
       IN /\ locals' = [locals EXCEPT ![h].total_amount = total,
                                      ![h].payment_result = payment_result]
          /\ log' = Logged(h, "payment", payment_result.success, payment_result.payment_id)
          /\ IF ~payment_result.success
             THEN /\ pc' = [pc EXCEPT ![h] = "done"]
                  /\ response' = [response EXCEPT ![h] =
                                    PaymentFailedError(payment_result.error_message)]
                  /\ issued' = issued
             ELSE /\ pc' = [pc EXCEPT ![h] = "order"]
                  /\ response' = response
                  /\ issued' = Append(issued, payment_result.payment_id)
    /\ UNCHANGED <<customers, products, warehouses, inventory, orders, order_items,
                   next_order_id, next_item_id, request, session, ncalls, sel, pay,
                   geo>>

\* Defect variant: the flush commits the Order row.
FlushOrder_Autocommit(h) ==
    /\ pc[h] = "order"
    /\ orders' = orders \cup {Order(h, next_order_id)}
    /\ locals' = [locals EXCEPT ![h].order_id = next_order_id]
    /\ next_order_id' = next_order_id + 1
    /\ pc' = [pc EXCEPT ![h] = "items"]
    /\ log' = Logged(h, "flush", TRUE, next_order_id)
    /\ UNCHANGED <<customers, products, warehouses, inventory, order_items,
                   next_item_id, issued, request, session, response, ncalls, sel, pay,
                   geo>>

\* 7. db.add(order); db.flush(): the Order row is written inside the session's
\* transaction and gets its id; it is not committed.
FlushOrder(h) ==
    /\ pc[h] = "order"
    /\ session' = [session EXCEPT ![h].orders = @ \cup {Order(h, next_order_id)}]
    /\ locals' = [locals EXCEPT ![h].order_id = next_order_id]
    /\ next_order_id' = next_order_id + 1
    /\ pc' = [pc EXCEPT ![h] = "items"]
    /\ log' = Logged(h, "flush", TRUE, next_order_id)
    /\ UNCHANGED <<customers, products, warehouses, inventory, orders, order_items,
                   next_item_id, issued, request, response, ncalls, sel, pay,
                   geo>>

\* Defect variant: the OrderItems take the price the Product has at commit.
Commit_RereadPrices(h) ==
    /\ pc[h] = "items"
    /\ orders' = orders \cup session[h].orders
    /\ order_items' = order_items \cup
            {[it EXCEPT !.unit_price = products[it.product_id]]
                : it \in OrderItems(h, next_item_id)}
    /\ next_item_id' = next_item_id + Len(request[h].items)
    /\ session' = [session EXCEPT ![h] = NoSession]
    /\ pc' = [pc EXCEPT ![h] = "done"]
    /\ response' = [response EXCEPT ![h] = Created(locals[h].order_id)]
    /\ log' = Logged(h, "commit", TRUE, locals[h].order_id)
    /\ UNCHANGED <<customers, products, warehouses, inventory, next_order_id,
                   issued, request, locals, ncalls, sel, pay, geo>>

\* Defect variant: a request whose customer, address and total equal those of
\* a persisted Order is answered with that Order, and nothing is written.
Commit_Deduplicating(h) ==
    /\ pc[h] = "items"
    /\ LET same == {o \in orders : /\ o.customer_id = request[h].customer_id
                                   /\ o.shipping_address = request[h].shipping_address
                                   /\ o.total_amount = locals[h].total_amount}
       IN IF same = {}
          THEN /\ orders' = orders \cup session[h].orders
               /\ order_items' = order_items \cup OrderItems(h, next_item_id)
               /\ next_item_id' = next_item_id + Len(request[h].items)
               /\ response' = [response EXCEPT ![h] = Created(locals[h].order_id)]
          ELSE /\ UNCHANGED <<orders, order_items, next_item_id>>
               /\ response' = [response EXCEPT ![h] =
                                 Created((CHOOSE o \in same : TRUE).id)]
    /\ session' = [session EXCEPT ![h] = NoSession]
    /\ pc' = [pc EXCEPT ![h] = "done"]
    /\ log' = Logged(h, "commit", TRUE, locals[h].order_id)
    /\ UNCHANGED <<customers, products, warehouses, inventory, next_order_id,
                   issued, request, locals, ncalls, sel, pay, geo>>

\* Defect variant: the commit takes the ordered quantities off the stock of
\* the Order's warehouse.
Commit_DecrementStock(h) ==
    /\ pc[h] = "items"
    /\ orders' = orders \cup session[h].orders
    /\ order_items' = order_items \cup OrderItems(h, next_item_id)
    /\ next_item_id' = next_item_id + Len(request[h].items)
    /\ inventory' =
          {[e EXCEPT !.quantity =
                @ - total_amount([pid \in {e.product_id} |-> 1],
                                 SelectSeq(request[h].items,
                                           LAMBDA it : /\ it.product_id = e.product_id
                                                       /\ e.warehouse_id = locals[h].warehouse))]
              : e \in inventory}
    /\ session' = [session EXCEPT ![h] = NoSession]
    /\ pc' = [pc EXCEPT ![h] = "done"]
    /\ response' = [response EXCEPT ![h] = Created(locals[h].order_id)]
    /\ log' = Logged(h, "commit", TRUE, locals[h].order_id)
    /\ UNCHANGED <<customers, products, warehouses, next_order_id,
                   issued, request, locals, ncalls, sel, pay, geo>>

\* The OrderItems are added to the session; db.commit() writes them and makes
\* the Order row and the OrderItem rows visible together.  Then the response
\* is built from the order.
Commit(h) ==
    /\ pc[h] = "items"
    /\ orders' = orders \cup session[h].orders
    /\ order_items' = order_items \cup OrderItems(h, next_item_id)
    /\ next_item_id' = next_item_id + Len(request[h].items)
    /\ session' = [session EXCEPT ![h] = NoSession]
    /\ pc' = [pc EXCEPT ![h] = "done"]
    /\ response' = [response EXCEPT ![h] = Created(locals[h].order_id)]
    /\ log' = Logged(h, "commit", TRUE, locals[h].order_id)
    /\ UNCHANGED <<customers, products, warehouses, inventory, next_order_id,
                   issued, request, locals, ncalls, sel, pay, geo>>

\* Defect variant: the failure of the write takes the charge back.
PersistenceFailure_Refund(h) ==
    /\ pc[h] \in {"order", "items"}
    /\ session' = [session EXCEPT ![h] = NoSession]
    /\ pc' = [pc EXCEPT ![h] = "done"]
    /\ response' = [response EXCEPT ![h] = InternalServerError]
    /\ log' = Logged(h, "rollback", FALSE, locals[h].order_id)
    /\ issued' = SelectSeq(issued, LAMBDA id : id # locals[h].payment_result.payment_id)
    /\ UNCHANGED <<customers, products, warehouses, inventory, orders, order_items,
                   next_order_id, next_item_id, request, locals,
                   ncalls, sel, pay, geo>>

\* db.flush() or db.commit() raises (the storage fails): create_order is left
\* by the exception, and the session's transaction is rolled back when the
\* request's session is closed.
PersistenceFailure(h) ==
    /\ pc[h] \in {"order", "items"}
    /\ session' = [session EXCEPT ![h] = NoSession]
    /\ pc' = [pc EXCEPT ![h] = "done"]
    /\ response' = [response EXCEPT ![h] = InternalServerError]
    /\ log' = Logged(h, "rollback", FALSE, locals[h].order_id)
    /\ UNCHANGED <<customers, products, warehouses, inventory, orders, order_items,
                   next_order_id, next_item_id, issued, request, locals,
                   ncalls, sel, pay, geo>>

\* The prices a writer outside create_order may give Product pid: free, or
\* its seeded price again.
Prices(pid) == {0, SeedProducts[pid]}

\* The products whose price changes while orders are created.
RepricedProducts == {1}

\* Another writer changes Product.price.
UpdateProductPrice(pid, price) ==
    /\ pid \in DOMAIN products
    /\ products[pid] # price
    /\ products' = [products EXCEPT ![pid] = price]
    /\ UNCHANGED <<customers, warehouses, inventory, orders, order_items,
                   next_order_id, next_item_id, issued, pc, request, locals,
                   session, response, ncalls, log, sel, pay, geo>>

-----------------------------------------------------------------------------
(* Specification Spec: the handlers run create_order concurrently against   *)
(* the seeded database, while product prices change.                        *)

\* number of create_order calls started by the concurrent handlers
MaxCalls == 2

Item(product_id, quantity) == OrderItemRequest(product_id, quantity)

CreateOrderRequest(customer_id, shipping_address, credit_card, items) ==
    [customer_id |-> customer_id, shipping_address |-> shipping_address,
     credit_card |-> credit_card, items |-> items]

\* One request for each way through create_order.  Customer 2 and product 3
\* have no row; no warehouse stocks 3 of product 1.
ConcurrentRequests ==
    LET austin == "1 Main St, Austin, TX 73301, USA" IN
    { CreateOrderRequest(2, austin, GoodCard, <<Item(1, 1)>>),
      CreateOrderRequest(1, austin, GoodCard, <<Item(3, 1)>>),
      CreateOrderRequest(1, austin, GoodCard, <<Item(1, 3)>>),
      CreateOrderRequest(1, austin, DeclinedCard, <<Item(1, 1)>>),
      CreateOrderRequest(1, austin, GoodCard, <<Item(1, 1), Item(2, 2)>>) }

NoSel == [called |-> FALSE, items |-> <<>>, shipping_location |-> NoLocation,
          rows |-> <<>>, warehouse |-> NoWarehouse]

NoPay == [called |-> FALSE, card_number |-> <<>>, amount |-> 0,
          result |-> PaymentResult(FALSE, NoPaymentId, NoMessage)]

InitHandlers ==
    /\ orders = {}
    /\ order_items = {}
    /\ next_order_id = 1
    /\ next_item_id = 1
    /\ issued = <<>>
    /\ pc = [h \in Handlers |-> "idle"]
    /\ request = [h \in Handlers |-> NoRequest]
    /\ locals = [h \in Handlers |-> NoLocals]
    /\ session = [h \in Handlers |-> NoSession]
    /\ response = [h \in Handlers |-> NoResponse]
    /\ ncalls = 0
    /\ log = <<>>
    /\ sel = NoSel
    /\ pay = NoPay
    /\ geo = <<>>

Init ==
    /\ customers = SeedCustomers
    /\ products = SeedProducts
    /\ warehouses = SeedWarehouses
    /\ inventory = SeedInventory
    /\ InitHandlers

Next ==
    \/ \E h \in Handlers : \E r \in ConcurrentRequests : Begin(h, r, MaxCalls)
    \/ \E h \in Handlers : ValidateCustomer(h)
    \/ \E h \in Handlers : ValidateProducts(h)
    \/ \E h \in Handlers : FindWarehouse(h)
    \/ \E h \in Handlers : ProcessPayment(h)
    \/ \E h \in Handlers : FlushOrder(h)
    \/ \E h \in Handlers : Commit(h)
    \/ \E h \in Handlers : PersistenceFailure(h)
    \/ \E pid \in RepricedProducts : \E price \in Prices(pid) : UpdateProductPrice(pid, price)

Spec == Init /\ [][Next]_vars

-----------------------------------------------------------------------------
(* Specification SpecSeq: one handler runs create_order on every request    *)
(* built from the sets below, against the seeded database in which each     *)
(* product has its seeded price or is free.                                 *)

\* number of create_order calls made one after the other
MaxSeqCalls == 1

SeqRequests ==
    [customer_id : {1, 2},
     shipping_address : {"5 Bay St, Oakland, CA 94607, USA"},
     credit_card : {GoodCard, DeclinedCard},
     items : UNION {[1..n -> {Item(p, q) : p \in {1, 2, 3, 4}, q \in {1, 3}}] : n \in 1..2}]

InitSeq ==
    /\ customers = SeedCustomers
    /\ \E priced \in [DOMAIN SeedProducts -> BOOLEAN] :
          products = [pid \in DOMAIN SeedProducts |->
                        IF priced[pid] THEN SeedProducts[pid] ELSE 0]
    /\ warehouses = SeedWarehouses
    /\ inventory = SeedInventory
    /\ InitHandlers

NextSeq ==
    \/ \E r \in SeqRequests : Begin("h1", r, MaxSeqCalls)
    \/ ValidateCustomer("h1")
    \/ ValidateProducts("h1")
    \/ FindWarehouse("h1")
    \/ ProcessPayment("h1")
    \/ FlushOrder("h1")
    \/ Commit("h1")
    \/ PersistenceFailure("h1")

SpecSeq == InitSeq /\ [][NextSeq]_vars

-----------------------------------------------------------------------------
(* Specification SpecRetry: one handler serves one request after the other, *)
(* so that a request is repeated after its first call has ended.            *)

\* number of create_order calls the handler serves
MaxRetryCalls == 2

RetryRequests ==
    { CreateOrderRequest(1, "1 Main St, Austin, TX 73301, USA", GoodCard, <<Item(1, 1)>>),
      CreateOrderRequest(1, "7 Oak Ave, Miami, FL 33101, USA", GoodCard,
                         <<Item(1, 1), Item(2, 2)>>) }

NextRetry ==
    \/ \E r \in RetryRequests : Begin("h1", r, MaxRetryCalls)
    \/ ValidateCustomer("h1")
    \/ ValidateProducts("h1")
    \/ FindWarehouse("h1")
    \/ ProcessPayment("h1")
    \/ FlushOrder("h1")
    \/ Commit("h1")
    \/ PersistenceFailure("h1")

SpecRetry == Init /\ [][NextRetry]_vars

-----------------------------------------------------------------------------
(* Specification SpecSelect: find_best_warehouse on its own, over every     *)
(* inventory of two warehouses and two products within the bounds.          *)

SelectWarehouseIds == {1, 2}
SelectProductIds == {1, 2}

\* -1 stands for "no inventory entry".
StockLevels == [SelectWarehouseIds \X SelectProductIds -> -1..MaxStock]

InventoryOf(stock) ==
    {Inventory(k[1], k[2], stock[k]) : k \in {x \in DOMAIN stock : stock[x] >= 0}}

\* The item lists of length 0..MaxItems; product ids may repeat.
SelectItemLists ==
    UNION {[1..n -> SelectProductIds \X (1..MaxStock)] : n \in 0..MaxItems}

InitSelect ==
    /\ customers = SeedCustomers
    /\ products = SeedProducts
    /\ warehouses \in [SelectWarehouseIds -> {Dallas, NewYork}]
    /\ \E stock \in StockLevels : inventory = InventoryOf(stock)
    /\ InitHandlers

SelectWarehouse ==
    /\ ~sel.called
    /\ \E items \in SelectItemLists,
          shipping_location \in {geocode_address(address) : address \in Addresses},
          rows \in RowOrders(DOMAIN warehouses) :
            sel' = [called |-> TRUE, items |-> items,
                    shipping_location |-> shipping_location,
                    rows |-> rows,
                    warehouse |-> find_best_warehouse(inventory, warehouses, items,
                                                      shipping_location, rows)]
    /\ UNCHANGED <<customers, products, warehouses, inventory, orders, order_items,
                   next_order_id, next_item_id, issued, pc, request, locals,
                   session, response, ncalls, log, pay, geo>>

NextSelect == SelectWarehouse

SpecSelect == InitSelect /\ [][NextSelect]_vars

-----------------------------------------------------------------------------
(* Specification SpecPay: process_payment on its own.                       *)

\* A card number of n digits beginning with first.
CardOf(first, n) == [i \in 1..n |-> IF i = 1 THEN first ELSE i % 10]

CardNumbers == {CardOf(first, n) : first \in {0, 4}, n \in 0..MaxCardLen}

Amounts == -1..MaxAmount

Charge ==
    /\ Len(issued) < MaxPayments
    /\ \E card_number \in CardNumbers, amount \in Amounts, uuid \in uuid4 :
        LET result == process_payment(card_number, amount, uuid) IN
        /\ pay' = [called |-> TRUE, card_number |-> card_number, amount |-> amount,
                   result |-> result]
        /\ issued' = IF result.success THEN Append(issued, result.payment_id) ELSE issued
    /\ UNCHANGED <<customers, products, warehouses, inventory, orders, order_items,
                   next_order_id, next_item_id, pc, request, locals,
                   session, response, ncalls, log, sel, geo>>

NextPay == Charge

SpecPay == Init /\ [][NextPay]_vars

-----------------------------------------------------------------------------
(* Specification SpecGeo: geocode_address on its own, called repeatedly.    *)

\* number of geocode_address calls made
MaxGeocodeCalls == 3

\* The addresses geocoded: those above and the empty string.
GeocodeInputs == Addresses \cup {""}

Geocode ==
    /\ Len(geo) < MaxGeocodeCalls
    /\ \E address \in GeocodeInputs :
          geo' = Append(geo, [address |-> address, location |-> geocode_address(address)])
    /\ UNCHANGED <<customers, products, warehouses, inventory, orders, order_items,
                   next_order_id, next_item_id, issued, pc, request, locals,
                   session, response, ncalls, log, sel, pay>>

NextGeo == Geocode

SpecGeo == Init /\ [][NextGeo]_vars

-----------------------------------------------------------------------------
(* Claims about find_best_warehouse (SpecSelect) *)

\* Warehouse w has, for item (product id, quantity), an inventory entry of
\* that product with at least that quantity.
Stocks(w, item) ==
    \E e \in inventory : /\ e.warehouse_id = w
                         /\ e.product_id = item[1]
                         /\ e.quantity >= item[2]

Qualifies(w, items) == \A i \in 1..Len(items) : Stocks(w, items[i])

QualifyingWarehouses(items) == {w \in DOMAIN warehouses : Qualifies(w, items)}

DistinctProducts(items) ==
    \A i, j \in 1..Len(items) : items[i][1] = items[j][1] => i = j

SelDistance(w) == Distance(warehouses, sel.shipping_location, w)

\* C2: for a non-empty item list with pairwise distinct product ids,
\* find_best_warehouse returns a warehouse iff some warehouse has, for every
\* requested (product, quantity), an entry of that product with quantity >=
\* the requested one, and the warehouse it returns is such a warehouse.
C2_ReturnsIffSomeWarehouseQualifies ==
    (sel.called /\ sel.items # <<>> /\ DistinctProducts(sel.items)) =>
        /\ (sel.warehouse # NoWarehouse) <=> (QualifyingWarehouses(sel.items) # {})
        /\ sel.warehouse # NoWarehouse => sel.warehouse \in QualifyingWarehouses(sel.items)

\* Two products are asked for; one warehouse is short on one of them, the
\* other stocks both and is returned.
C2_Witness ==
    /\ sel.called /\ Len(sel.items) = 2 /\ DistinctProducts(sel.items)
    /\ QualifyingWarehouses(sel.items) = {2}
    /\ \E i \in 1..2 : Stocks(1, sel.items[i])
    /\ \E e \in inventory : /\ e.warehouse_id = 1
                            /\ e.product_id = sel.items[2][1]
                            /\ e.quantity < sel.items[2][2]
    /\ sel.warehouse = 2

\* C3: when two or more warehouses qualify, the warehouse returned qualifies
\* and no qualifying warehouse is closer to the shipping coordinate.
C3_ReturnsAClosestQualifyingWarehouse ==
    (sel.called /\ Cardinality(QualifyingWarehouses(sel.items)) >= 2
        /\ sel.items # <<>> /\ DistinctProducts(sel.items)) =>
        /\ sel.warehouse \in QualifyingWarehouses(sel.items)
        /\ \A w \in QualifyingWarehouses(sel.items) : SelDistance(sel.warehouse) <= SelDistance(w)

\* Both warehouses qualify, the storage returns the farther one first, and
\* the strictly closer one is returned.
C3_Witness ==
    /\ sel.called /\ QualifyingWarehouses(sel.items) = {1, 2}
    /\ sel.rows = <<1, 2>>
    /\ SelDistance(2) < SelDistance(1)
    /\ sel.warehouse = 2

\* C4: among the qualifying warehouses at the minimum distance, the one with
\* the lowest id is returned, whatever the order of the rows.
C4_TieGoesToLowestId ==
    (sel.called /\ sel.warehouse # NoWarehouse) =>
        \A w \in QualifyingWarehouses(sel.items) :
            SelDistance(w) = SelDistance(sel.warehouse) => sel.warehouse <= w

\* C20: find_best_warehouse called with an empty item list returns None,
\* whatever the warehouses and the inventory are.
C20_EmptyItemsSelectNothing ==
    (sel.called /\ sel.items = <<>>) => sel.warehouse = NoWarehouse

\* Both warehouses stock both products, the item list is empty, and no
\* warehouse is returned.
C20_Witness ==
    /\ sel.called /\ sel.items = <<>>
    /\ \A w \in SelectWarehouseIds : \A p \in SelectProductIds :
          \E e \in inventory : e.warehouse_id = w /\ e.product_id = p /\ e.quantity >= 1
    /\ sel.warehouse = NoWarehouse

-----------------------------------------------------------------------------
(* Claims about create_order (Spec, SpecSeq) *)

Calls == 1..Len(log)

HasStep(c, op, ok, val) == \E i \in 1..Len(log[c]) : log[c][i] = Step(op, ok, val)

LastStep(c) == log[c][Len(log[c])]

ItemsOf(o) == {it \in order_items : it.order_id = o.id}

RECURSIVE SumItems(_)
SumItems(S) ==
    IF S = {} THEN 0
    ELSE LET it == CHOOSE x \in S : TRUE
         IN it.unit_price * it.quantity + SumItems(S \ {it})

\* C1: every persisted Order was written by a create_order call in which
\* find_best_warehouse returned a warehouse and process_payment succeeded;
\* its warehouse_id is that warehouse and its payment_id the id of that
\* payment.
C1_OrderHasWarehouseAndPayment ==
    \A o \in orders :
        /\ o.call \in Calls
        /\ o.warehouse_id # NoWarehouse
        /\ o.payment_id # NoPaymentId
        /\ HasStep(o.call, "warehouse", TRUE, o.warehouse_id)
        /\ HasStep(o.call, "payment", TRUE, o.payment_id)
        /\ \A i \in 1..Len(log[o.call]) :
              /\ log[o.call][i].op = "warehouse" => log[o.call][i].val = o.warehouse_id
              /\ log[o.call][i].op = "payment" => log[o.call][i].val = o.payment_id

\* An Order is persisted, and another call has failed at the payment.
C1_Witness ==
    /\ \E o \in orders : HasStep(o.call, "commit", TRUE, o.id)
    /\ \E c \in Calls : LastStep(c).op = "payment" /\ ~LastStep(c).ok

CustomerMissing(r) == r.customer_id \notin customers

ProductsMissing(r) == \E i \in 1..Len(r.items) : r.items[i].product_id \notin DOMAIN products

NoWarehouseQualifies(r) == QualifyingWarehouses(items_with_qty(r.items)) = {}

CardDeclined(r) == r.credit_card[1] = 0

\* C5: a finished create_order call reports the first failing step in the
\* order customer, products, warehouse, payment.
C5_FirstFailingStepIsReported ==
    \A h \in Handlers : pc[h] = "done" =>
        LET r == request[h] IN
        /\ CustomerMissing(r) => response[h].error = "CustomerNotFoundError"
        /\ (~CustomerMissing(r) /\ ProductsMissing(r)) =>
                response[h].error = "ProductNotFoundError"
        /\ (~CustomerMissing(r) /\ ~ProductsMissing(r) /\ NoWarehouseQualifies(r)) =>
                response[h].error = "NoWarehouseAvailableError"
        /\ (~CustomerMissing(r) /\ ~ProductsMissing(r) /\ ~NoWarehouseQualifies(r)
                /\ DistinctProducts(items_with_qty(r.items)) /\ CardDeclined(r)) =>
                response[h].error = "PaymentFailedError"

\* The customer and a product are missing, no warehouse stocks the other
\* product in the quantity asked for, the card would be declined: the call
\* ends in CustomerNotFound.
C5_Witness ==
    /\ pc["h1"] = "done"
    /\ CustomerMissing(request["h1"])
    /\ ProductsMissing(request["h1"])
    /\ NoWarehouseQualifies(request["h1"])
    /\ CardDeclined(request["h1"])
    /\ response["h1"].error = "CustomerNotFoundError"
    /\ response["h1"].status_code = 404

OrderServiceErrors ==
    {"CustomerNotFoundError", "ProductNotFoundError", "NoWarehouseAvailableError",
     "PaymentFailedError"}

\* C6: no step of a create_order call that ends in CustomerNotFound,
\* ProductsNotFound, NoWarehouseAvailable or PaymentFailed changes the
\* persisted Order and OrderItem rows: the tables change only in the step
\* that completes a call with the created Order.
C6_FailedCallsLeaveTablesUnchanged ==
    [][(orders' # orders \/ order_items' # order_items) =>
            \E h \in Handlers : /\ pc[h] # "done"
                                /\ pc'[h] = "done"
                                /\ response'[h].status_code = 201
                                /\ response'[h].error \notin OrderServiceErrors]_vars

\* A call has ended in PaymentFailed while an Order of another call is
\* persisted.
C6_Witness ==
    \E h \in Handlers :
        /\ pc[h] = "done"
        /\ response[h].error = "PaymentFailedError"
        /\ orders # {}
        /\ \A o \in orders : o.call # locals[h].call
        /\ \A it \in order_items : it.call # locals[h].call

\* C7: within one create_order call process_payment is invoked at most once,
\* and only after the customer lookup, the product lookup and the warehouse
\* selection have succeeded; the Order is written only after the payment
\* succeeded.
C7_PaymentAfterValidationBeforeWrite ==
    \A c \in Calls :
        LET s == log[c] IN
        /\ Cardinality({i \in 1..Len(s) : s[i].op = "payment"}) <= 1
        /\ \A i \in 1..Len(s) :
              /\ s[i].op = "payment" =>
                    /\ i = 5
                    /\ s[2].op = "customer" /\ s[2].ok
                    /\ s[3].op = "products" /\ s[3].ok
                    /\ s[4].op = "warehouse" /\ s[4].ok
              /\ s[i].op \in {"flush", "commit"} =>
                    /\ i > 5
                    /\ s[5].op = "payment" /\ s[5].ok
              /\ (s[i].op \in {"customer", "products", "warehouse"} /\ ~s[i].ok) =>
                    \A j \in 1..Len(s) : s[j].op \notin {"payment", "flush", "commit"}

\* One call has paid and written its Order; another has ended in
\* NoWarehouseAvailable without a payment.
C7_Witness ==
    /\ \E c \in Calls : /\ Len(log[c]) = 7
                        /\ log[c][5].op = "payment" /\ log[c][5].ok
                        /\ log[c][6].op = "flush"
                        /\ log[c][7].op = "commit"
    /\ \E c \in Calls : /\ LastStep(c) = Step("warehouse", FALSE, NoWarehouse)
                        /\ Len(log[c]) = 4

\* C8: a persisted Order is never visible with fewer OrderItems than the
\* request had line items, no OrderItem is visible without its Order, and a
\* call whose write failed after the Order row was flushed leaves no Order
\* row and no OrderItem row.
C8_OrderAndItemsCommitTogether ==
    /\ \A o \in orders :
          /\ o.call \in Calls
          /\ Cardinality(ItemsOf(o)) = log[o.call][1].val
          /\ \A it \in ItemsOf(o) : it.call = o.call
    /\ \A it \in order_items : \E o \in orders : o.id = it.order_id
    /\ \A c \in Calls : LastStep(c).op = "rollback" =>
          /\ \A o \in orders : o.call # c
          /\ \A it \in order_items : it.call # c

\* An Order with two OrderItems is persisted, and another call failed after
\* its Order row was flushed.
C8_Witness ==
    /\ \E o \in orders : Cardinality(ItemsOf(o)) = 2
    /\ \E c \in Calls : /\ LastStep(c).op = "rollback"
                        /\ \E i \in 1..Len(log[c]) : log[c][i].op = "flush"

\* C9: the total_amount of a persisted Order is the sum of unit_price x
\* quantity of its OrderItems, each unit_price being the price read by the
\* product lookup of the call; no later step, a price change included,
\* changes a persisted Order or OrderItem.
C9_TotalIsSumOfSnapshotPrices ==
    /\ [](\A o \in orders :
            /\ o.total_amount = SumItems(ItemsOf(o))
            /\ \A h \in Handlers : locals[h].call = o.call =>
                  \A it \in ItemsOf(o) :
                      it.unit_price = locals[h].products_map[it.product_id])
    /\ [][/\ orders \subseteq orders'
          /\ order_items \subseteq order_items'
          /\ \A o \in orders : \A it \in order_items' :
                it.order_id = o.id => it \in order_items]_vars

\* The price of product 1 was read, then changed before the commit: the
\* persisted Order keeps the price read.
C9_Witness ==
    \E o \in orders : \E it \in ItemsOf(o) :
        /\ it.unit_price # products[it.product_id]
        /\ it.unit_price = SeedProducts[it.product_id]
        /\ Cardinality(ItemsOf(o)) = 2
        /\ o.total_amount = 99999 + 2 * 2999
        /\ \E h \in Handlers : /\ pc[h] = "items"
                               /\ locals[h].products_map[1] = 0

-----------------------------------------------------------------------------
(* Claims about process_payment (SpecPay) *)

\* C10: the checks of process_payment apply in the order card number, amount,
\* issuer, and the first that fails gives the reason; a failure carries no
\* payment id and a success no error reason.
C10_FirstFailingCheckWins ==
    pay.called =>
        LET short == pay.card_number = <<>> \/ Len(pay.card_number) < 13 IN
        /\ short => pay.result.error_message = "Invalid card number"
        /\ (~short /\ pay.amount <= 0) => pay.result.error_message = "Invalid amount"
        /\ (~short /\ pay.amount > 0 /\ pay.card_number[1] = 0) =>
                pay.result.error_message = "Card declined by issuer"
        /\ (~short /\ pay.amount > 0 /\ pay.card_number[1] # 0) => pay.result.success
        /\ ~pay.result.success => /\ pay.result.payment_id = NoPaymentId
                                  /\ pay.result.error_message # NoMessage
        /\ pay.result.success => /\ pay.result.error_message = NoMessage
                                 /\ pay.result.payment_id # NoPaymentId

\* A card of 13 digits beginning with 0 and an amount <= 0: the amount wins.
C10_Witness ==
    /\ pay.called
    /\ Len(pay.card_number) = 13 /\ pay.card_number[1] = 0 /\ pay.amount <= 0
    /\ pay.result.error_message = "Invalid amount"
    /\ pay.result.payment_id = NoPaymentId

\* C11: a process_payment call with a card number of 13 or more digits not
\* beginning with 0 and a positive amount succeeds, and its payment id differs
\* from the payment id of every earlier successful call.
C11_SuccessWithFreshPaymentId ==
    (pay.called /\ Len(pay.card_number) >= 13 /\ pay.card_number[1] # 0
        /\ pay.amount > 0) =>
        /\ pay.result.success
        /\ issued # <<>>
        /\ issued[Len(issued)] = pay.result.payment_id
        /\ \A i \in 1..(Len(issued) - 1) : issued[i] # pay.result.payment_id

-----------------------------------------------------------------------------
(* Further claims about create_order (Spec, SpecSeq) *)

\* The product ids of request r that have no Product row.
MissingIds(r) ==
    {r.items[i].product_id : i \in 1..Len(r.items)} \ DOMAIN products

\* C12: when the customer exists and requested product ids have no Product
\* row, the call ends in ProductNotFoundError (404) and the ids its message
\* lists are exactly the requested ids that are missing.
C12_MessageListsEveryMissingId ==
    \A h \in Handlers :
        (pc[h] = "done" /\ ~CustomerMissing(request[h]) /\ MissingIds(request[h]) # {}) =>
            /\ response[h].error = "ProductNotFoundError"
            /\ response[h].status_code = 404
            /\ LET listed == response[h].message[2] IN
               {listed[i] : i \in 1..Len(listed)} = MissingIds(request[h])

\* Two different missing ids are requested: both are listed, in the order of
\* the request.
C12_Witness ==
    /\ pc["h1"] = "done"
    /\ MissingIds(request["h1"]) = {3, 4}
    /\ response["h1"].message = <<"Products not found", <<4, 3>>>>

\* C13: create_order never changes an inventory entry: after any sequence of
\* calls, successful or failed, the inventory is the initial inventory.
C13_InventoryUnchanged ==
    inventory = SeedInventory

\* An Order on warehouse 3 for its whole stock of product 1 is persisted and
\* another call has failed; the entry still has quantity 1.
C13_Witness ==
    /\ \E o \in orders : /\ o.warehouse_id = 3
                          /\ \E it \in ItemsOf(o) : it.product_id = 1 /\ it.quantity = 1
    /\ \E c \in Calls : ~LastStep(c).ok
    /\ Inventory(3, 1, 1) \in inventory

\* C14: every persisted Order has status "confirmed", and no step changes
\* the status of a persisted Order.
C14_StatusIsConfirmed ==
    /\ [](\A o \in orders : o.status = "confirmed")
    /\ [][\A o \in orders : \E o2 \in orders' : o2.id = o.id /\ o2.status = o.status]_vars

\* An Order is persisted, and a later call has run to its end.
C14_Witness ==
    \E o \in orders : \E c \in Calls :
        /\ o.status = "confirmed"
        /\ c > o.call
        /\ LastStep(c).op \in {"commit", "rollback", "payment"}
        /\ \A h \in Handlers : pc[h] = "done"

\* The reasons process_payment gives for a failure.
PaymentReasons == {"Invalid card number", "Invalid amount", "Card declined by issuer"}

\* C15: a call that fails at the customer or the product lookup is answered
\* with 404, one that finds no warehouse with 400, one whose payment fails
\* with 402 and a message holding the processor's reason; the answer carries
\* the status and the message of the error raised.
C15_ErrorKindsMapToStatusCodes ==
    \A h \in Handlers : pc[h] = "done" =>
        LET last == LastStep(locals[h].call)
            r    == response[h]
        IN
        /\ (last.op = "customer" /\ ~last.ok) =>
                /\ r.status_code = 404
                /\ r.error = "CustomerNotFoundError"
                /\ r.message = <<"Customer with id not found", request[h].customer_id>>
        /\ (last.op = "products" /\ ~last.ok) =>
                /\ r.status_code = 404
                /\ r.error = "ProductNotFoundError"
                /\ r.message[1] = "Products not found"
        /\ (last.op = "warehouse" /\ ~last.ok) =>
                /\ r.status_code = 400
                /\ r.error = "NoWarehouseAvailableError"
        /\ (last.op = "payment" /\ ~last.ok) =>
                /\ r.status_code = 402
                /\ r.error = "PaymentFailedError"
                /\ r.message = <<"Payment failed", locals[h].payment_result.error_message>>
                /\ r.message[2] \in PaymentReasons
        /\ r.error \in OrderServiceErrors => r.order_id = 0

\* A call whose total is 0 ends in 402 with the processor's reason.
C15_Witness ==
    /\ pc["h1"] = "done"
    /\ response["h1"].status_code = 402
    /\ response["h1"].message = <<"Payment failed", "Invalid amount">>
    /\ request["h1"].credit_card = DeclinedCard

-----------------------------------------------------------------------------
(* Claims about geocode_address (SpecGeo) *)

\* Two of the addresses geocoded are equal or differ only in letter case.
SameIgnoringCase(a, b) ==
    \/ a = b
    \/ {a, b} = {"1 Main St, Austin, TX 73301, USA", "1 MAIN ST, AUSTIN, TX 73301, USA"}

\* C16: calls of geocode_address with the same address, or with addresses
\* that differ only in letter case, return the same coordinate, and every
\* coordinate returned, that of the empty string included, has its latitude
\* in [25, 49] and its longitude in [-125, -67].
C16_GeocodeDeterministicInRange ==
    /\ \A i, j \in 1..Len(geo) :
          SameIgnoringCase(geo[i].address, geo[j].address) => geo[i].location = geo[j].location
    /\ \A i \in 1..Len(geo) :
          /\ geo[i].location.latitude >= 25000000
          /\ geo[i].location.latitude <= 49000000
          /\ geo[i].location.longitude >= -125000000
          /\ geo[i].location.longitude <= -67000000

\* The same address was geocoded twice, then in upper case; the empty string
\* was geocoded as well.
C16_Witness ==
    /\ Len(geo) = 3
    /\ geo[1].address = "1 Main St, Austin, TX 73301, USA"
    /\ geo[2].address = "1 MAIN ST, AUSTIN, TX 73301, USA"
    /\ geo[3].address = ""
    /\ geo[1].location = geo[2].location
    /\ geo[3].location = [latitude |-> 46345984, longitude |-> -90339380]

-----------------------------------------------------------------------------
(* Gaps of create_order under concurrency, failure and repetition (Spec) *)

\* C17: the warehouse selection of every call looks at the stock alone, not
\* at what the persisted Orders demand: a call finds a closest warehouse among
\* those whose stock covers its items, and finds none only when no stock
\* does.  Hence two concurrent calls can both be given a warehouse that
\* covers each of them but not both.
C17_SelectionIgnoresPersistedOrders ==
    \A h \in Handlers :
        (locals[h].call \in Calls /\ Len(log[locals[h].call]) >= 4) =>
            LET found == log[locals[h].call][4]
                items == items_with_qty(request[h].items)
                loc   == locals[h].geo_location
            IN IF found.ok
               THEN /\ found.val \in QualifyingWarehouses(items)
                    /\ \A w \in QualifyingWarehouses(items) :
                          Distance(warehouses, loc, found.val) <= Distance(warehouses, loc, w)
               ELSE QualifyingWarehouses(items) = {}

\* Two calls that overlapped (the later one wrote its Order first) have both
\* committed an Order on the same warehouse; its stock of a product covers
\* each Order but not the two together.
C17_Witness ==
    \E e \in inventory : \E o1, o2 \in orders :
        /\ o1.call < o2.call /\ o1.id > o2.id
        /\ o1.warehouse_id = e.warehouse_id /\ o2.warehouse_id = e.warehouse_id
        /\ Quantity(ItemsOf(o1), e.product_id) <= e.quantity
        /\ Quantity(ItemsOf(o2), e.product_id) <= e.quantity
        /\ Quantity(ItemsOf(o1), e.product_id) > 0
        /\ Demand(e.warehouse_id, e.product_id) > e.quantity

\* The payment ids charged so far.
Charged == {issued[i] : i \in 1..Len(issued)}

\* C18: a call whose write failed was charged before (its payment step
\* succeeded), no Order and no OrderItem of it is persisted, and the charge
\* stays: no step ever takes a payment id out of the charges made.
C18_ChargeWithoutOrderIsKept ==
    /\ [](\A c \in Calls : LastStep(c).op = "rollback" =>
            /\ log[c][5].op = "payment" /\ log[c][5].ok
            /\ log[c][5].val \in Charged
            /\ \A o \in orders : o.call # c
            /\ \A it \in order_items : it.call # c)
    /\ [][/\ Len(issued') >= Len(issued)
          /\ SubSeq(issued', 1, Len(issued)) = issued]_vars

\* The only charge made belongs to a call whose write failed after the flush:
\* the call was answered with 500 and no Order is persisted.
C18_Witness ==
    \E h \in Handlers :
        /\ pc[h] = "done"
        /\ response[h].status_code = 500
        /\ Len(log[locals[h].call]) = 7
        /\ LastStep(locals[h].call).op = "rollback"
        /\ issued = <<locals[h].payment_result.payment_id>>
        /\ orders = {}

-----------------------------------------------------------------------------
(* Claims about repeated requests (SpecRetry) *)

\* The calls whose log has a successful step op.
CallsWith(op) ==
    {c \in Calls : \E i \in 1..Len(log[c]) : log[c][i].op = op /\ log[c][i].ok}

\* Orders o1 and o2 were created from the same request.
SameRequest(o1, o2) ==
    /\ o1.customer_id = o2.customer_id
    /\ o1.shipping_address = o2.shipping_address
    /\ o1.total_amount = o2.total_amount
    /\ {<<it.product_id, it.quantity>> : it \in ItemsOf(o1)}
          = {<<it.product_id, it.quantity>> : it \in ItemsOf(o2)}

\* C19: nothing deduplicates a repeated request: every call that reaches
\* its commit adds an Order of its own, and every call that reaches the
\* payment with a good card is charged, whatever Orders are persisted.
C19_EveryCallChargesAndOrders ==
    /\ Cardinality(orders) = Cardinality(CallsWith("commit"))
    /\ \A c \in CallsWith("commit") : \E o \in orders : o.call = c
    /\ Len(issued) = Cardinality(CallsWith("payment"))
    /\ \A h \in Handlers : (pc[h] = "done" /\ LastStep(locals[h].call).op = "commit") =>
          /\ response[h].status_code = 201
          /\ \E o \in orders : o.id = response[h].order_id /\ o.call = locals[h].call

\* The request was repeated after its first call had ended with an Order:
\* a second Order of the same content is persisted, with another payment id,
\* and two charges were made.
C19_Witness ==
    \E o1, o2 \in orders :
        /\ o1.call = 1 /\ o2.call = 2
        /\ o1.id # o2.id
        /\ SameRequest(o1, o2)
        /\ o1.payment_id # o2.payment_id
        /\ issued = <<o1.payment_id, o2.payment_id>>
        /\ pc["h1"] = "done" /\ response["h1"].order_id = o2.id

-----------------------------------------------------------------------------
(* Further claims about create_order (SpecSeq, Spec) *)

\* C21: a call whose item list names a product id more than once, with the
\* customer and the products existing, ends in NoWarehouseAvailable whatever
\* the stock; it makes no charge and writes no Order.
C21_RepeatedProductFindsNoWarehouse ==
    \A h \in Handlers :
        (pc[h] = "done" /\ ~CustomerMissing(request[h]) /\ ~ProductsMissing(request[h])
            /\ ~DistinctProducts(items_with_qty(request[h].items))) =>
            /\ response[h].error = "NoWarehouseAvailableError"
            /\ response[h].status_code = 400
            /\ LastStep(locals[h].call) = Step("warehouse", FALSE, NoWarehouse)
            /\ \A i \in 1..Len(log[locals[h].call]) :
                  log[locals[h].call][i].op \notin {"payment", "flush", "commit"}
            /\ \A o \in orders : o.call # locals[h].call

\* Product 1 is asked for twice, 1 each time; warehouse 1 stocks 2 of it and
\* would cover both; the call ends in NoWarehouseAvailable without a charge.
C21_Witness ==
    /\ pc["h1"] = "done"
    /\ request["h1"].customer_id = 1
    /\ request["h1"].credit_card = GoodCard
    /\ request["h1"].items = <<Item(1, 1), Item(1, 1)>>
    /\ Inventory(1, 1, 2) \in inventory
    /\ response["h1"].error = "NoWarehouseAvailableError"
    /\ issued = <<>>
    /\ orders = {}

\* Every product that request r asks for has price 0.
AllFree(r) == \A i \in 1..Len(r.items) : products[r.items[i].product_id] = 0

\* C22: no persisted Order has a total_amount <= 0; a call whose products
\* all have price 0 and for which a warehouse qualifies ends in PaymentFailed
\* with the reason "Invalid amount", and writes no Order.
C22_NoFreeOrder ==
    /\ \A o \in orders : o.total_amount > 0
    /\ \A h \in Handlers :
          (pc[h] = "done" /\ ~CustomerMissing(request[h]) /\ ~ProductsMissing(request[h])
              /\ DistinctProducts(items_with_qty(request[h].items))
              /\ ~NoWarehouseQualifies(request[h]) /\ AllFree(request[h])) =>
              /\ response[h].error = "PaymentFailedError"
              /\ response[h].status_code = 402
              /\ response[h].message = <<"Payment failed", "Invalid amount">>
              /\ \A o \in orders : o.call # locals[h].call

\* Both products are free; a good card orders them from a warehouse that
\* stocks them, and the call ends in PaymentFailed with "Invalid amount".
C22_Witness ==
    /\ pc["h1"] = "done"
    /\ request["h1"].customer_id = 1
    /\ request["h1"].credit_card = GoodCard
    /\ request["h1"].items = <<Item(2, 1), Item(1, 1)>>
    /\ products[1] = 0 /\ products[2] = 0
    /\ locals["h1"].warehouse # NoWarehouse
    /\ response["h1"].message = <<"Payment failed", "Invalid amount">>
    /\ orders = {}

\* C23: two different persisted Orders carry different payment ids, and
\* there are never more persisted Orders than successful charges.
C23_OneChargePerOrder ==
    /\ \A o1, o2 \in orders : o1.id # o2.id => o1.payment_id # o2.payment_id
    /\ Cardinality(orders) <= Len(issued)

====
